---- MODULE Spec2Model ----
(***************************************************************************)
(* The password generator of Utilix (src/src/tools/password_generator.rs)  *)
(* as a state machine.  The state is the PasswordGenerator struct plus the *)
(* position of the one key handler that may be running: generate_password  *)
(* and generate_multiple_passwords are split at every call of              *)
(* rng.gen_range, the only place where the environment chooses.           *)
(*                                                                         *)
(* Characters are their Unicode code points (`char as i32`), strings are   *)
(* sequences of code points.                                               *)
(***************************************************************************)
EXTENDS Integers, Sequences, FiniteSets

VARIABLES
    length,                     \* self.length
    quantity,                   \* self.quantity
    use_uppercase,              \* self.use_uppercase
    use_lowercase,              \* self.use_lowercase
    use_numbers,                \* self.use_numbers
    use_symbols,                \* self.use_symbols
    use_similar_characters,     \* self.use_similar_characters
    use_duplicate_characters,   \* self.use_duplicate_characters
    use_sequential_characters,  \* self.use_sequential_characters
    generated_password,         \* self.generated_password
    pc,        \* where the running handler stands: "idle" (none running),
               \* "draw" (line 90), "dup" (line 96), "seq" (line 107), "sim" (line 115)
    call,      \* the generate function that runs or has just returned, else "none"
    acc,       \* the characters the iterator of line 87 has produced so far
    passwords, \* the local vector of generate_multiple_passwords
    result,    \* the value the last generate function returned
    rng        \* position of the scanning random stream (SpecScan only)

settings == <<length, quantity, use_uppercase, use_lowercase, use_numbers,
              use_symbols, use_similar_characters, use_duplicate_characters,
              use_sequential_characters>>

vars == <<length, quantity, use_uppercase, use_lowercase, use_numbers,
          use_symbols, use_similar_characters, use_duplicate_characters,
          use_sequential_characters, generated_password, pc, call, acc,
          passwords, result, rng>>

----------------------------------------------------------------------------
(* Bounds of the exploration. *)

\* Lengths up to MaxLength are explored with free draws: increase_length is
\* followed up to it and, under Spec, the generate keys are pressed only at
\* or below it (the default length, 12, lies above: a session first decreases).
MaxLength == 2

\* increase_quantity is followed up to MaxQuantity.
MaxQuantity == 2

\* Under Spec a batch is started only when its passwords have at most
\* MaxBatchChars characters in all (length * quantity).
MaxBatchChars == 4

\* The scanning random stream of SpecScan returns 0, 1, ..., RngPeriod - 1, 0, ...
\* (each reduced into the requested range).
RngPeriod == 8

\* Under SpecScan decrease_length is followed down to MinScanLength.
MinScanLength == 8

----------------------------------------------------------------------------
(* Program constants. *)

\* "ABCDEFGHIJKLMNPQRSTUVWXYZ"
\* Mutant of UPPERCASE: the whole alphabet, 'O' included.
UPPERCASE_with_O ==
    <<65, 66, 67, 68, 69, 70, 71, 72, 73, 74, 75, 76, 77, 78, 79,
      80, 81, 82, 83, 84, 85, 86, 87, 88, 89, 90>>

UPPERCASE ==
    <<65, 66, 67, 68, 69, 70, 71, 72, 73, 74, 75, 76, 77, 78,
      80, 81, 82, 83, 84, 85, 86, 87, 88, 89, 90>>

\* "abcdefghjkmnpqrstuvwxyz"
LOWERCASE ==
    <<97, 98, 99, 100, 101, 102, 103, 104, 106, 107, 109, 110,
      112, 113, 114, 115, 116, 117, 118, 119, 120, 121, 122>>

\* "23456789"
NUMBERS == <<50, 51, 52, 53, 54, 55, 56, 57>>

\* "!@#$%^&*()_+-=[]{}|;:,.<>?"
SYMBOLS ==
    <<33, 64, 35, 36, 37, 94, 38, 42, 40, 41, 95, 43, 45, 61, 91, 93,
      123, 125, 124, 59, 58, 44, 46, 60, 62, 63>>

\* "ilLo0O".chars().collect()
similar_characters == {105, 108, 76, 111, 48, 79}

\* '\n', appended by format!("{}\n", ..)
NEWLINE == <<10>>

\* The characters whose indices the random source returns under Spec:
\* 'K' and 'L' (adjacent code points; 'L' is the one member of
\* similar_characters that a class string holds), 'z' and '{' (adjacent code
\* points of two classes) and '2'.  Every class has one outside
\* similar_characters.
Sampled == {75, 76, 122, 123, 50}

----------------------------------------------------------------------------
(* Strings. *)

\* String::contains(char)
Contains(s, c) == \E i \in 1..Len(s) : s[i] = c

\* chars().last().unwrap()
LastChar(s) == s[Len(s)]

Range(s) == {s[i] : i \in 1..Len(s)}

----------------------------------------------------------------------------
(* generate_password: the character set. *)

\* Mutant of charset: the numbers are added whether enabled or not.
charset_numbers_always ==
    (IF use_uppercase THEN UPPERCASE ELSE <<>>) \o
    (IF use_lowercase THEN LOWERCASE ELSE <<>>) \o
    NUMBERS \o
    (IF use_symbols THEN SYMBOLS ELSE <<>>)

charset ==
    (IF use_uppercase THEN UPPERCASE ELSE <<>>) \o
    (IF use_lowercase THEN LOWERCASE ELSE <<>>) \o
    (IF use_numbers THEN NUMBERS ELSE <<>>) \o
    (IF use_symbols THEN SYMBOLS ELSE <<>>)

\* Mutant of CharsetIsEmpty: the check of line 82 is missing.
CharsetIsEmpty_unchecked == FALSE

\* line 82: charset.is_empty()
CharsetIsEmpty == charset = <<>>

\* Mutant of RangeEnd: 0..=self.length.
RangeEnd_inclusive == length + 1

\* line 87: the end of the range 0..self.length the closure is mapped over
RangeEnd == length

\* Mutant of MoreRuns: the loop stops one run early.
MoreRuns_short(pws) == Len(pws) + 1 < quantity

\* line 184: for _ in 0..self.quantity goes round again after pws is pushed
MoreRuns(pws) == Len(pws) < quantity

(* The three retry loops of the closure.  Each reads self.generated_password, *)
(* which the assignment of line 87 replaces only after collect() has run:     *)
(* during the call it is the output stored before the call.                   *)

\* line 94-95: the duplicate loop is entered, or goes round again, on c
\* Mutant of DupLoop: the candidate is also compared with the characters
\* accepted so far in this call.
DupLoop_reads_in_progress(c) ==
    /\ ~use_duplicate_characters
    /\ \/ Contains(generated_password, c)
       \/ Contains(acc, c)

DupLoop(c) ==
    /\ ~use_duplicate_characters
    /\ Contains(generated_password, c)

\* line 102-105: the sequential loop is entered, or goes round again, on c
SeqLoop(c) ==
    /\ ~use_sequential_characters
    /\ generated_password # <<>>
    /\ \/ c = LastChar(generated_password) + 1
       \/ c = LastChar(generated_password) - 1

\* Mutant of SimLoop: the flag is read the other way round.
SimLoop_flag_inverted(c) ==
    /\ use_similar_characters
    /\ c \in similar_characters

\* Mutant of SimLoop: the membership test is negated.
SimLoop_membership_negated(c) ==
    /\ ~use_similar_characters
    /\ c \notin similar_characters

\* line 113-114: the similar loop is entered, or goes round again, on c
SimLoop(c) ==
    /\ ~use_similar_characters
    /\ c \in similar_characters

\* Where control stands after gen_range, called at `at`, has returned the
\* index of c: in one of the loops, about to draw again, or at line 121
\* ("push": c is the closure's value).  A loop tests only its own condition.
AfterDraw(at, c) ==
    CASE at \in {"draw", "dup"} ->
            IF DupLoop(c) THEN "dup"
            ELSE IF SeqLoop(c) THEN "seq"
            ELSE IF SimLoop(c) THEN "sim"
            ELSE "push"
      [] at = "seq" ->
            IF SeqLoop(c) THEN "seq"
            ELSE IF SimLoop(c) THEN "sim"
            ELSE "push"
      [] at = "sim" ->
            IF SimLoop(c) THEN "sim" ELSE "push"

----------------------------------------------------------------------------
(* Return values. *)

NoResult == [kind |-> "None", msg |-> "", passwords |-> <<>>]
OkUnit == [kind |-> "Ok", msg |-> "", passwords |-> <<>>]
OkVec(pws) == [kind |-> "Ok", msg |-> "", passwords |-> pws]
ErrCharset == [kind |-> "Err", msg |-> "Charset is empty", passwords |-> <<>>]

----------------------------------------------------------------------------
\* Mutant of Init: a container created with length 8.
Init_length_8 ==
    /\ length = 8
    /\ use_uppercase = TRUE
    /\ use_lowercase = TRUE
    /\ use_numbers = TRUE
    /\ use_symbols = TRUE
    /\ use_similar_characters = FALSE
    /\ use_duplicate_characters = FALSE
    /\ use_sequential_characters = FALSE
    /\ generated_password = <<>>
    /\ quantity = 1
    /\ pc = "idle"
    /\ call = "none"
    /\ acc = <<>>
    /\ passwords = <<>>
    /\ result = NoResult
    /\ rng = 0

Init ==
    /\ length = 12
    /\ use_uppercase = TRUE
    /\ use_lowercase = TRUE
    /\ use_numbers = TRUE
    /\ use_symbols = TRUE
    /\ use_similar_characters = FALSE
    /\ use_duplicate_characters = FALSE
    /\ use_sequential_characters = FALSE
    /\ generated_password = <<>>
    /\ quantity = 1
    /\ pc = "idle"
    /\ call = "none"
    /\ acc = <<>>
    /\ passwords = <<>>
    /\ result = NoResult
    /\ rng = 0

\* A handler that returns nothing: the value of the previous one is gone.
Handled ==
    /\ pc' = "idle"
    /\ call' = "none"
    /\ result' = NoResult
    /\ UNCHANGED <<acc, passwords, rng>>

increase_length ==
    /\ pc = "idle"
    /\ length' = length + 1
    /\ Handled
    /\ UNCHANGED <<quantity, use_uppercase, use_lowercase, use_numbers,
                   use_symbols, use_similar_characters, use_duplicate_characters,
                   use_sequential_characters, generated_password>>

\* Mutant of decrease_length: the floor of line 135 is missing.
decrease_length_no_floor ==
    /\ pc = "idle"
    /\ length' = length - 1
    /\ Handled
    /\ UNCHANGED <<quantity, use_uppercase, use_lowercase, use_numbers,
                   use_symbols, use_similar_characters, use_duplicate_characters,
                   use_sequential_characters, generated_password>>

decrease_length ==
    /\ pc = "idle"
    /\ length' = IF length > 1 THEN length - 1 ELSE length
    /\ Handled
    /\ UNCHANGED <<quantity, use_uppercase, use_lowercase, use_numbers,
                   use_symbols, use_similar_characters, use_duplicate_characters,
                   use_sequential_characters, generated_password>>

\* Mutant of clear_password: it also puts the quantity back to 1.
clear_password_resets_quantity ==
    /\ pc = "idle"
    /\ generated_password' = <<>>
    /\ quantity' = 1
    /\ Handled
    /\ UNCHANGED <<length, use_uppercase, use_lowercase, use_numbers,
                   use_symbols, use_similar_characters, use_duplicate_characters,
                   use_sequential_characters>>

clear_password ==
    /\ pc = "idle"
    /\ generated_password' = <<>>
    /\ Handled
    /\ UNCHANGED settings

toggle_uppercase ==
    /\ pc = "idle"
    /\ use_uppercase' = ~use_uppercase
    /\ Handled
    /\ UNCHANGED <<length, quantity, use_lowercase, use_numbers, use_symbols,
                   use_similar_characters, use_duplicate_characters,
                   use_sequential_characters, generated_password>>

\* Mutant of toggle_lowercase: it flips the field of toggle_uppercase.
toggle_lowercase_flips_uppercase ==
    /\ pc = "idle"
    /\ use_uppercase' = ~use_uppercase
    /\ Handled
    /\ UNCHANGED <<length, quantity, use_lowercase, use_numbers, use_symbols,
                   use_similar_characters, use_duplicate_characters,
                   use_sequential_characters, generated_password>>

toggle_lowercase ==
    /\ pc = "idle"
    /\ use_lowercase' = ~use_lowercase
    /\ Handled
    /\ UNCHANGED <<length, quantity, use_uppercase, use_numbers, use_symbols,
                   use_similar_characters, use_duplicate_characters,
                   use_sequential_characters, generated_password>>

toggle_numbers ==
    /\ pc = "idle"
    /\ use_numbers' = ~use_numbers
    /\ Handled
    /\ UNCHANGED <<length, quantity, use_uppercase, use_lowercase, use_symbols,
                   use_similar_characters, use_duplicate_characters,
                   use_sequential_characters, generated_password>>

toggle_symbols ==
    /\ pc = "idle"
    /\ use_symbols' = ~use_symbols
    /\ Handled
    /\ UNCHANGED <<length, quantity, use_uppercase, use_lowercase, use_numbers,
                   use_similar_characters, use_duplicate_characters,
                   use_sequential_characters, generated_password>>

toggle_similar_characters ==
    /\ pc = "idle"
    /\ use_similar_characters' = ~use_similar_characters
    /\ Handled
    /\ UNCHANGED <<length, quantity, use_uppercase, use_lowercase, use_numbers,
                   use_symbols, use_duplicate_characters,
                   use_sequential_characters, generated_password>>

toggle_duplicate_characters ==
    /\ pc = "idle"
    /\ use_duplicate_characters' = ~use_duplicate_characters
    /\ Handled
    /\ UNCHANGED <<length, quantity, use_uppercase, use_lowercase, use_numbers,
                   use_symbols, use_similar_characters,
                   use_sequential_characters, generated_password>>

toggle_sequential_characters ==
    /\ pc = "idle"
    /\ use_sequential_characters' = ~use_sequential_characters
    /\ Handled
    /\ UNCHANGED <<length, quantity, use_uppercase, use_lowercase, use_numbers,
                   use_symbols, use_similar_characters,
                   use_duplicate_characters, generated_password>>

\* saturating_add(1): usize::MAX is out of the explored range
increase_quantity ==
    /\ pc = "idle"
    /\ quantity' = quantity + 1
    /\ Handled
    /\ UNCHANGED <<length, use_uppercase, use_lowercase, use_numbers,
                   use_symbols, use_similar_characters, use_duplicate_characters,
                   use_sequential_characters, generated_password>>

\* Mutant of decrease_quantity: the floor is 2, saturating_sub(1).max(2).
decrease_quantity_floor_2 ==
    /\ pc = "idle"
    /\ LET sub == IF quantity > 0 THEN quantity - 1 ELSE 0
       IN  quantity' = IF sub > 2 THEN sub ELSE 2
    /\ Handled
    /\ UNCHANGED <<length, use_uppercase, use_lowercase, use_numbers,
                   use_symbols, use_similar_characters, use_duplicate_characters,
                   use_sequential_characters, generated_password>>

\* saturating_sub(1).max(1)
decrease_quantity ==
    /\ pc = "idle"
    /\ LET sub == IF quantity > 0 THEN quantity - 1 ELSE 0
       IN  quantity' = IF sub > 1 THEN sub ELSE 1
    /\ Handled
    /\ UNCHANGED <<length, use_uppercase, use_lowercase, use_numbers,
                   use_symbols, use_similar_characters, use_duplicate_characters,
                   use_sequential_characters, generated_password>>

----------------------------------------------------------------------------
(* generate_password and generate_multiple_passwords. *)

\* Mutant of generate_password: the stored output is reset before the charset
\* is tested.
generate_password_resets_first ==
    /\ pc = "idle"
    /\ call' = "generate_password"
    /\ acc' = <<>>
    /\ IF CharsetIsEmpty
       THEN /\ result' = ErrCharset
            /\ pc' = "idle"
            /\ generated_password' = <<>>
       ELSE IF RangeEnd = 0
       THEN /\ generated_password' = <<>>
            /\ result' = OkUnit
            /\ pc' = "idle"
       ELSE /\ result' = NoResult
            /\ pc' = "draw"
            /\ UNCHANGED generated_password
    /\ UNCHANGED <<settings, passwords, rng>>

\* generate_password is called: it returns the error of line 83, or reaches
\* the first gen_range of line 90 (an empty range 0..length collects at once).
generate_password ==
    /\ pc = "idle"
    /\ call' = "generate_password"
    /\ acc' = <<>>
    /\ IF CharsetIsEmpty
       THEN /\ result' = ErrCharset
            /\ pc' = "idle"
            /\ UNCHANGED generated_password
       ELSE IF RangeEnd = 0
       THEN /\ generated_password' = <<>>
            /\ result' = OkUnit
            /\ pc' = "idle"
       ELSE /\ result' = NoResult
            /\ pc' = "draw"
            /\ UNCHANGED generated_password
    /\ UNCHANGED <<settings, passwords, rng>>

\* Mutant of generate_multiple_passwords: the quantity field is used up as the
\* loop counter.
generate_multiple_passwords_uses_up_quantity ==
    /\ pc = "idle"
    /\ call' = "generate_multiple_passwords"
    /\ acc' = <<>>
    /\ passwords' = <<>>
    /\ quantity' = 1
    /\ IF ~MoreRuns(<<>>)
       THEN /\ result' = OkVec(<<>>)
            /\ pc' = "idle"
            /\ UNCHANGED generated_password
       ELSE /\ generated_password' = <<>>
            /\ IF CharsetIsEmpty
               THEN /\ result' = ErrCharset
                    /\ pc' = "idle"
               ELSE IF RangeEnd = 0
               THEN /\ result' = OkVec([i \in 1..quantity |-> NEWLINE])
                    /\ pc' = "idle"
               ELSE /\ result' = NoResult
                    /\ pc' = "draw"
    /\ UNCHANGED <<length, use_uppercase, use_lowercase, use_numbers,
                   use_symbols, use_similar_characters, use_duplicate_characters,
                   use_sequential_characters, rng>>

\* Mutant of generate_multiple_passwords: the stored password is cleared only
\* once the charset is known not to be empty.
generate_multiple_passwords_clears_late ==
    /\ pc = "idle"
    /\ call' = "generate_multiple_passwords"
    /\ acc' = <<>>
    /\ passwords' = <<>>
    /\ IF ~MoreRuns(<<>>)
       THEN /\ result' = OkVec(<<>>)
            /\ pc' = "idle"
            /\ UNCHANGED generated_password
       ELSE IF CharsetIsEmpty
       THEN /\ result' = ErrCharset
            /\ pc' = "idle"
            /\ UNCHANGED generated_password
       ELSE /\ generated_password' = <<>>
            /\ IF RangeEnd = 0
               THEN /\ result' = OkVec([i \in 1..quantity |-> NEWLINE])
                    /\ pc' = "idle"
               ELSE /\ result' = NoResult
                    /\ pc' = "draw"
    /\ UNCHANGED <<settings, rng>>

\* generate_multiple_passwords is called: the first iteration clears the
\* stored password and enters generate_password, whose error `?` returns.
generate_multiple_passwords ==
    /\ pc = "idle"
    /\ call' = "generate_multiple_passwords"
    /\ acc' = <<>>
    /\ passwords' = <<>>
    /\ IF ~MoreRuns(<<>>)
       THEN /\ result' = OkVec(<<>>)
            /\ pc' = "idle"
            /\ UNCHANGED generated_password
       ELSE /\ generated_password' = <<>>
            /\ IF CharsetIsEmpty
               THEN /\ result' = ErrCharset
                    /\ pc' = "idle"
               ELSE IF RangeEnd = 0
               THEN /\ result' = OkVec([i \in 1..quantity |-> NEWLINE])
                    /\ pc' = "idle"
               ELSE /\ result' = NoResult
                    /\ pc' = "draw"
    /\ UNCHANGED <<settings, rng>>

\* Mutant of Collect: the batch puts each password at the front of the vector.
Collect_pushes_front(pwd) ==
    IF call = "generate_password"
    THEN /\ generated_password' = pwd
         /\ result' = OkUnit
         /\ pc' = "idle"
         /\ acc' = <<>>
         /\ UNCHANGED passwords
    ELSE LET pws == <<pwd \o NEWLINE>> \o passwords
         IN  IF MoreRuns(pws)
             THEN /\ generated_password' = <<>>
                  /\ passwords' = pws
                  /\ pc' = "draw"
                  /\ acc' = <<>>
                  /\ UNCHANGED result
             ELSE /\ generated_password' = pwd
                  /\ result' = OkVec(pws)
                  /\ passwords' = <<>>
                  /\ pc' = "idle"
                  /\ acc' = <<>>

\* Mutant of Collect: the batch does not clear the stored password before
\* its next run.
Collect_no_clear(pwd) ==
    IF call = "generate_password"
    THEN /\ generated_password' = pwd
         /\ result' = OkUnit
         /\ pc' = "idle"
         /\ acc' = <<>>
         /\ UNCHANGED passwords
    ELSE LET pws == Append(passwords, pwd \o NEWLINE)
         IN  IF MoreRuns(pws)
             THEN /\ generated_password' = pwd
                  /\ passwords' = pws
                  /\ pc' = "draw"
                  /\ acc' = <<>>
                  /\ UNCHANGED result
             ELSE /\ generated_password' = pwd
                  /\ result' = OkVec(pws)
                  /\ passwords' = <<>>
                  /\ pc' = "idle"
                  /\ acc' = <<>>

\* collect() has produced pwd: line 87 stores it.  generate_password returns
\* Ok(()); in a batch line 187 pushes it with a newline, and the loop either
\* returns the vector or clears the stored password and enters
\* generate_password again (the character set is as it was: not empty).
Collect(pwd) ==
    IF call = "generate_password"
    THEN /\ generated_password' = pwd
         /\ result' = OkUnit
         /\ pc' = "idle"
         /\ acc' = <<>>
         /\ UNCHANGED passwords
    ELSE LET pws == Append(passwords, pwd \o NEWLINE)
         IN  IF MoreRuns(pws)
             THEN /\ generated_password' = <<>>
                  /\ passwords' = pws
                  /\ pc' = "draw"
                  /\ acc' = <<>>
                  /\ UNCHANGED result
             ELSE /\ generated_password' = pwd
                  /\ result' = OkVec(pws)
                  /\ passwords' = <<>>
                  /\ pc' = "idle"
                  /\ acc' = <<>>

\* Mutant of Draw: every accepted character is written to the stored output
\* at once, not when the password is complete.
Draw_stores_as_it_goes(idx) ==
    /\ pc \in {"draw", "dup", "seq", "sim"}
    /\ idx \in 0..(Len(charset) - 1)
    /\ LET char_to_add == charset[idx + 1]
           next == AfterDraw(pc, char_to_add)
       IN  IF next # "push"
           THEN /\ pc' = next
                /\ UNCHANGED <<generated_password, acc, passwords, result>>
           ELSE IF Len(acc) + 1 < RangeEnd
           THEN /\ acc' = Append(acc, char_to_add)
                /\ generated_password' = Append(acc, char_to_add)
                /\ pc' = "draw"
                /\ UNCHANGED <<passwords, result>>
           ELSE Collect(Append(acc, char_to_add))
    /\ UNCHANGED <<settings, call>>

\* rng.gen_range(0..charset.len()) returns idx, at line 90, 96, 107 or 115,
\* and the closure runs on to its next gen_range or to its value.
Draw(idx) ==
    /\ pc \in {"draw", "dup", "seq", "sim"}
    /\ idx \in 0..(Len(charset) - 1)
    /\ LET char_to_add == charset[idx + 1]
           next == AfterDraw(pc, char_to_add)
       IN  IF next # "push"
           THEN /\ pc' = next
                /\ UNCHANGED <<generated_password, acc, passwords, result>>
           ELSE IF Len(acc) + 1 < RangeEnd
           THEN /\ acc' = Append(acc, char_to_add)
                /\ pc' = "draw"
                /\ UNCHANGED <<generated_password, passwords, result>>
           ELSE Collect(Append(acc, char_to_add))
    /\ UNCHANGED <<settings, call>>

----------------------------------------------------------------------------
(* The environment: the keys of run_app and the random source. *)

\* thread_rng may return any index; Spec follows the indices of Sampled.
SampledDraw ==
    /\ \E idx \in {i \in 0..(Len(charset) - 1) : charset[i + 1] \in Sampled} :
            Draw(idx)
    /\ UNCHANGED rng

\* SpecScan follows one stream, which scans the character set from its
\* start in every key handler.
ScanDraw ==
    /\ pc # "idle"
    /\ Draw(rng % Len(charset))
    /\ rng' = IF pc' = "idle" THEN 0 ELSE (rng + 1) % RngPeriod

KeyI == length < MaxLength /\ increase_length
KeyK == quantity < MaxQuantity /\ increase_quantity
KeyG == length <= MaxLength /\ generate_password
KeyM ==
    /\ length <= MaxLength
    /\ length * quantity <= MaxBatchChars
    /\ generate_multiple_passwords
KeyD == length > MinScanLength /\ decrease_length

Next ==
    \/ KeyG
    \/ KeyI
    \/ decrease_length
    \/ toggle_uppercase
    \/ toggle_lowercase
    \/ toggle_numbers
    \/ toggle_symbols
    \/ toggle_similar_characters
    \/ toggle_duplicate_characters
    \/ clear_password
    \/ toggle_sequential_characters
    \/ KeyM
    \/ KeyK
    \/ decrease_quantity
    \/ SampledDraw

Spec == Init /\ [][Next]_vars

\* The sessions in which every call starts from an empty stored output: a
\* stored password is cleared ('c') before the next key.
NoOutput == generated_password = <<>>

NextFair ==
    \/ NoOutput /\ KeyG
    \/ NoOutput /\ KeyI
    \/ NoOutput /\ decrease_length
    \/ NoOutput /\ toggle_uppercase
    \/ NoOutput /\ toggle_lowercase
    \/ NoOutput /\ toggle_numbers
    \/ NoOutput /\ toggle_symbols
    \/ NoOutput /\ toggle_similar_characters
    \/ NoOutput /\ toggle_duplicate_characters
    \/ NoOutput /\ toggle_sequential_characters
    \/ NoOutput /\ KeyM
    \/ NoOutput /\ KeyK
    \/ NoOutput /\ decrease_quantity
    \/ clear_password
    \/ SampledDraw

\* A call runs on until it returns, and thread_rng does not return for ever
\* indices that leave the call where it stands.
SpecFair == Init /\ [][NextFair]_vars /\ WF_vars(SampledDraw)

\* The sessions at the default length and just below it, with the scanning
\* random stream.
NextScan ==
    \/ generate_password
    \/ KeyD
    \/ toggle_uppercase
    \/ toggle_lowercase
    \/ toggle_numbers
    \/ toggle_symbols
    \/ generate_multiple_passwords
    \/ ScanDraw

SpecScan == Init /\ [][NextScan]_vars

----------------------------------------------------------------------------
(* What the claims speak of. *)

\* generate_password has just returned Ok: generated_password is its password.
ReturnedOne ==
    /\ pc = "idle"
    /\ call = "generate_password"
    /\ result.kind = "Ok"

\* generate_multiple_passwords has just returned.
ReturnedBatch ==
    /\ pc = "idle"
    /\ call = "generate_multiple_passwords"

NoRepeat(s) == \A i, j \in 1..Len(s) : i # j => s[i] # s[j]

NoSequentialPair(s) ==
    \A i \in 1..(Len(s) - 1) : s[i + 1] # s[i] + 1 /\ s[i + 1] # s[i] - 1

NoSimilar(s) == \A i \in 1..Len(s) : s[i] \notin similar_characters

FromEnabledClasses(s) ==
    \A i \in 1..Len(s) :
        \/ use_uppercase /\ s[i] \in Range(UPPERCASE)
        \/ use_lowercase /\ s[i] \in Range(LOWERCASE)
        \/ use_numbers /\ s[i] \in Range(NUMBERS)
        \/ use_symbols /\ s[i] \in Range(SYMBOLS)

NoClassEnabled ==
    ~use_uppercase /\ ~use_lowercase /\ ~use_numbers /\ ~use_symbols

\* An element of the returned vector without its trailing newline.
PasswordOf(line) == SubSeq(line, 1, Len(line) - 1)

\* s meets every constraint the settings make active.
ValidPassword(s) ==
    /\ Len(s) = length
    /\ FromEnabledClasses(s)
    /\ use_duplicate_characters \/ NoRepeat(s)
    /\ use_sequential_characters \/ NoSequentialPair(s)
    /\ use_similar_characters \/ NoSimilar(s)

----------------------------------------------------------------------------
\* C1: with duplicates not allowed, a password that generate_password
\* returns holds no character twice.
C1_NoRepeatedCharacter ==
    (ReturnedOne /\ ~use_duplicate_characters) => NoRepeat(generated_password)

\* C2: with sequential characters not allowed, no two adjacent characters of
\* a password that generate_password returns have code points one apart.
C2_NoSequentialPair ==
    (ReturnedOne /\ ~use_sequential_characters)
        => NoSequentialPair(generated_password)

\* C3: generate_password never draws for ever: wherever it stands in a retry
\* loop, some index of the character set takes it out of that loop.
C3_EveryLoopCanBeLeft ==
    (call = "generate_password" /\ pc \in {"dup", "seq", "sim"})
        => \E idx \in 0..(Len(charset) - 1) :
                AfterDraw(pc, charset[idx + 1]) # pc

\* C4: with duplicates not allowed and a length above the number of distinct
\* characters of the character set, generate_password returns an error.
C4_TooLongIsAnError ==
    (/\ pc = "idle"
     /\ call = "generate_password"
     /\ ~use_duplicate_characters
     /\ length > Cardinality(Range(charset)))
        => result.kind = "Err"

\* C5: a password that generate_password returns has exactly `length`
\* characters.
C5_ExactLength == ReturnedOne => Len(generated_password) = length

C5_Witness ==
    /\ ReturnedOne
    /\ length = 2
    /\ Len(generated_password) = 2

\* C6: with all four classes disabled generate_password returns the error
\* "Charset is empty" at once: it does not go on to draw from the empty
\* range, and it does not return Ok.
C6_NoClassIsAnError ==
    (call = "generate_password" /\ NoClassEnabled)
        => pc = "idle" /\ result = ErrCharset

C6_Witness ==
    /\ call = "generate_password"
    /\ NoClassEnabled
    /\ result = ErrCharset
    /\ generated_password # <<>>

\* C7: with use_similar_characters = false, no character of a password that
\* generate_password returns is in similar_characters.
C7_NoSimilarCharacter ==
    (ReturnedOne /\ ~use_similar_characters) => NoSimilar(generated_password)

C7_Witness ==
    /\ ReturnedOne
    /\ ~use_similar_characters
    /\ use_uppercase
    /\ Contains(generated_password, 75)
    /\ Len(generated_password) = 2

\* C8: every character of a password that generate_password returns is of a
\* class that is enabled.
C8_OnlyEnabledClasses == ReturnedOne => FromEnabledClasses(generated_password)

C8_Witness ==
    /\ ReturnedOne
    /\ ~use_numbers
    /\ ~use_uppercase
    /\ Contains(generated_password, 122)
    /\ Contains(generated_password, 123)

\* C9: generate_multiple_passwords, when it returns Ok, returns `quantity`
\* strings, each (without its newline) a valid password: `length` characters
\* of the enabled classes that meet the active duplicate, sequential and
\* similar constraints.
C9_BatchOfValidPasswords ==
    (ReturnedBatch /\ result.kind = "Ok")
        => /\ Len(result.passwords) = quantity
           /\ \A j \in 1..Len(result.passwords) :
                ValidPassword(PasswordOf(result.passwords[j]))

\* C10: generate_multiple_passwords returns either Ok with exactly `quantity`
\* passwords or, with nothing left running, an error that carries none.
C10_BatchAllOrNothing ==
    ReturnedBatch
        => \/ result.kind = "Ok" /\ Len(result.passwords) = quantity
           \/ result.kind = "Err" /\ result.passwords = <<>> /\ passwords = <<>>

C10_Witness ==
    /\ ReturnedBatch
    /\ result.kind = "Ok"
    /\ quantity = 2
    /\ Len(result.passwords) = 2

\* A candidate whose verdict in the duplicate or the sequential loop rests on
\* the stored output.
JudgedByStoredOutput(c) == DupLoop(c) \/ SeqLoop(c)

\* C11: in every run of generate_multiple_passwords the stored output has
\* been cleared, so no candidate of the character set is judged by an earlier
\* password of the batch or by the output stored before it: in every run the
\* verdict on a candidate is that of the similar loop alone.
C11_BatchRunsAreIndependent ==
    (call = "generate_multiple_passwords" /\ pc # "idle")
        => /\ generated_password = <<>>
           /\ \A idx \in 0..(Len(charset) - 1) :
                /\ ~JudgedByStoredOutput(charset[idx + 1])
                /\ AfterDraw("draw", charset[idx + 1])
                     = IF SimLoop(charset[idx + 1]) THEN "sim" ELSE "push"

C11_Witness ==
    /\ call = "generate_multiple_passwords"
    /\ pc = "draw"
    /\ Len(passwords) = 1
    /\ acc # <<>>
    /\ ~use_duplicate_characters
    /\ ~use_sequential_characters

\* C12: length and quantity are at least 1 in every reachable state, and a
\* decrease_length at length 1 or a decrease_quantity at quantity 1 leaves
\* the value at 1.
C12_LengthAndQuantityPositive ==
    [][/\ length' >= 1
       /\ quantity' >= 1
       /\ (decrease_length /\ length = 1) => length' = 1
       /\ (decrease_quantity /\ quantity = 1) => quantity' = 1]_vars

C12_Witness ==
    /\ length = 1
    /\ quantity = 1
    /\ pc = "idle"
    /\ call = "none"
    /\ generated_password # <<>>

\* No toggle has a value other than the one new() gives it.
FreshToggles ==
    /\ use_uppercase /\ use_lowercase /\ use_numbers /\ use_symbols
    /\ ~use_similar_characters
    /\ ~use_duplicate_characters
    /\ ~use_sequential_characters

\* C13, as claimed: while the toggles are as new() sets them, the exclusion
\* of similar characters is not in effect: generate_password rejects no
\* candidate for being in similar_characters.
C13_NoExclusionByDefault ==
    (FreshToggles /\ call = "generate_password") => pc # "sim"

\* C13, amended: while the toggles are as new() sets them, the exclusion of
\* similar characters is in effect: no password that generate_password
\* returns holds a member of similar_characters, though the character set
\* holds one ('L').
C13_ExclusionByDefault ==
    (FreshToggles /\ ReturnedOne)
        => /\ NoSimilar(generated_password)
           /\ \E i \in 1..Len(charset) : charset[i] \in similar_characters

C13_Witness ==
    /\ FreshToggles
    /\ ReturnedOne
    /\ Contains(generated_password, 75)
    /\ Len(generated_password) = 1

\* C14: with length 8, uppercase and lowercase only, similar characters
\* excluded, duplicates and sequential characters not allowed, a password that
\* generate_password returns has 8 characters, all of them letters outside
\* similar_characters, none twice, no two adjacent ones a code point apart.
C14_EightLetterScenario ==
    (/\ ReturnedOne
     /\ length = 8
     /\ use_uppercase /\ use_lowercase /\ ~use_numbers /\ ~use_symbols
     /\ ~use_similar_characters
     /\ ~use_duplicate_characters
     /\ ~use_sequential_characters)
        => /\ Len(generated_password) = 8
           /\ \A i \in 1..Len(generated_password) :
                \/ generated_password[i] \in 65..90
                \/ generated_password[i] \in 97..122
           /\ NoSimilar(generated_password)
           /\ NoRepeat(generated_password)
           /\ NoSequentialPair(generated_password)

\* C15: clear_password empties the stored output and changes no other
\* field: length, quantity and the seven toggles are as they were.
C15_ClearOnlyEmptiesOutput ==
    [][clear_password
        => /\ generated_password' = <<>>
           /\ length' = length
           /\ quantity' = quantity
           /\ use_uppercase' = use_uppercase
           /\ use_lowercase' = use_lowercase
           /\ use_numbers' = use_numbers
           /\ use_symbols' = use_symbols
           /\ use_similar_characters' = use_similar_characters
           /\ use_duplicate_characters' = use_duplicate_characters
           /\ use_sequential_characters' = use_sequential_characters]_vars

\* A cleared output with every setting away from its default.
C15_Witness ==
    /\ pc = "idle"
    /\ call = "none"
    /\ generated_password = <<>>
    /\ length = 2
    /\ quantity = 2
    /\ ~use_uppercase /\ ~use_lowercase /\ ~use_numbers /\ ~use_symbols
    /\ use_similar_characters
    /\ use_duplicate_characters
    /\ use_sequential_characters

toggles ==
    <<use_uppercase, use_lowercase, use_numbers, use_symbols,
      use_similar_characters, use_duplicate_characters,
      use_sequential_characters>>

\* The k-th toggle is negated; the other six, length, quantity and the stored
\* output are as they were.
FlipsOnly(k) ==
    /\ toggles' = [toggles EXCEPT ![k] = ~@]
    /\ length' = length
    /\ quantity' = quantity
    /\ generated_password' = generated_password

\* C16: each of the seven toggle operations negates its own boolean and
\* changes nothing else of the settings and the stored output (so that the
\* same toggle applied twice restores them).
C16_ToggleFlipsItsOwnBoolean ==
    [][/\ toggle_uppercase => FlipsOnly(1)
       /\ toggle_lowercase => FlipsOnly(2)
       /\ toggle_numbers => FlipsOnly(3)
       /\ toggle_symbols => FlipsOnly(4)
       /\ toggle_similar_characters => FlipsOnly(5)
       /\ toggle_duplicate_characters => FlipsOnly(6)
       /\ toggle_sequential_characters => FlipsOnly(7)]_vars

\* Every toggle away from its default beside a stored output that was
\* generated before the classes were disabled.
C16_Witness ==
    /\ pc = "idle"
    /\ call = "none"
    /\ toggles = <<FALSE, FALSE, FALSE, FALSE, TRUE, TRUE, TRUE>>
    /\ Len(generated_password) = 2

\* The step in which a call of generate_password returns Ok: the stored output
\* is the characters this call accepted, whatever was stored before.
StoresItsOwnPassword ==
    (call = "generate_password" /\ pc # "idle" /\ pc' = "idle")
        => /\ result'.kind = "Ok"
           /\ Len(generated_password') = length
           /\ \E c \in Range(charset) : generated_password' = Append(acc, c)

\* A stored output that was not empty is empty when the program is at rest
\* again.
EmptiedAtRest ==
    /\ generated_password # <<>>
    /\ generated_password' = <<>>
    /\ pc' = "idle"

\* C17: after every successful generate_password the stored output is exactly
\* the password that call produced, replacing what was stored before, and the
\* stored output becomes empty only through the clear operation.
C17_OverwrittenAndEmptiedOnlyByClear ==
    [][/\ StoresItsOwnPassword
       /\ EmptiedAtRest => clear_password]_vars

FreshContainer ==
    /\ length = 12
    /\ quantity = 1
    /\ use_uppercase = TRUE
    /\ use_lowercase = TRUE
    /\ use_numbers = TRUE
    /\ use_symbols = TRUE
    /\ use_duplicate_characters = FALSE
    /\ use_sequential_characters = FALSE
    /\ generated_password = <<>>

\* C18: a freshly created container has length 12, quantity 1, the four
\* character classes enabled, duplicates and sequential characters
\* disallowed, and an empty stored output (a statement about the first state
\* of every behaviour).
C18_FreshContainerDefaults == FreshContainer /\ [][TRUE]_vars

\* The container as new() returns it, before any key is handled.
C18_Witness ==
    /\ FreshContainer
    /\ pc = "idle"
    /\ call = "none"
    /\ result = NoResult
    /\ rng = 0

\* C19: within a call of generate_password the fate of a candidate does not
\* depend on the output stored before the call: no character of the charset is
\* sent to a redraw by the stored output, so that the passwords the call can
\* return are those it can return from an empty stored output.
C19_StoredOutputHasNoInfluence ==
    (call = "generate_password" /\ pc # "idle")
        => \A idx \in 0..(Len(charset) - 1) :
             /\ ~JudgedByStoredOutput(charset[idx + 1])
             /\ AfterDraw("draw", charset[idx + 1])
                  = IF SimLoop(charset[idx + 1]) THEN "sim" ELSE "push"

\* The step appends c to the password being built: to the characters
\* collected so far, or as the last one, when the password is stored or
\* pushed to the batch.
Appends(c) ==
    /\ pc \in {"draw", "dup", "seq", "sim"}
    /\ \/ acc' = Append(acc, c)
       \/ pc' = "idle" /\ generated_password' = Append(acc, c)
       \/ passwords' = Append(passwords, Append(acc, c) \o NEWLINE)

\* C20: a character is appended only if that very character passes every
\* active check (duplicate, sequential, similar) as the code evaluates them:
\* a candidate drawn after a rejection is not accepted unchecked.
C20_AppendedCharacterPassedEveryCheck ==
    [][\A c \in Range(charset) :
          Appends(c) => ~DupLoop(c) /\ ~SeqLoop(c) /\ ~SimLoop(c)]_vars

\* C21: when generate_password fails with "Charset is empty", it fails in the
\* step of the call, before any gen_range (a call that has reached a draw
\* never ends in the error), and the stored output, the settings and the
\* random source are as they were before the call.
C21_EmptyCharsetFailsAtOnce ==
    [][/\ (generate_password /\ result'.kind = "Err")
            => /\ result' = ErrCharset
               /\ pc' = "idle"
               /\ generated_password' = generated_password
               /\ settings' = settings
               /\ rng' = rng
       /\ (call = "generate_password" /\ pc # "idle")
            => result'.kind # "Err"]_vars

\* generate_password has failed beside an output stored by an earlier call.
C21_Witness ==
    /\ pc = "idle"
    /\ call = "generate_password"
    /\ result = ErrCharset
    /\ generated_password # <<>>
    /\ NoClassEnabled

\* C22: while similar characters are excluded, the charset that gen_range
\* indexes holds no member of the similar set, so that no similar character
\* is ever a candidate and the similar loop is never entered.
C22_SimilarNeverDrawn ==
    (~use_similar_characters /\ pc \in {"draw", "dup", "seq", "sim"})
        => /\ \A idx \in 0..(Len(charset) - 1) :
                charset[idx + 1] \notin similar_characters
           /\ pc # "sim"

\* Only length changes.
OnlyLength ==
    /\ quantity' = quantity
    /\ toggles' = toggles
    /\ generated_password' = generated_password

\* Only quantity changes.
OnlyQuantity ==
    /\ length' = length
    /\ toggles' = toggles
    /\ generated_password' = generated_password

\* C23: increase_length adds exactly 1 to length and increase_quantity exactly
\* 1 to quantity, each changing no other field, and on every value an increase
\* can produce (2 and above) the matching decrease subtracts exactly 1, so
\* that decrease after increase gives the value back.
C23_IncreaseThenDecreaseRestores ==
    [][/\ increase_length => (length' = length + 1 /\ OnlyLength)
       /\ increase_quantity => (quantity' = quantity + 1 /\ OnlyQuantity)
       /\ (decrease_length /\ length >= 2)
            => (length' = length - 1 /\ OnlyLength)
       /\ (decrease_quantity /\ quantity >= 2)
            => (quantity' = quantity - 1 /\ OnlyQuantity)]_vars

\* Quantity raised from its default and length raised from the floor, nothing
\* else touched.
C23_Witness ==
    /\ pc = "idle"
    /\ call = "none"
    /\ length = 2
    /\ quantity = 2
    /\ FreshToggles
    /\ generated_password = <<>>

\* C24: the stored output is never a partially built password: whenever it
\* changes, it becomes empty or a password of `length` characters (length
\* cannot change while a call runs), and a step that ends in an error leaves
\* it as it was or empty.
C24_NeverAFragment ==
    [][/\ generated_password' # generated_password
            => \/ generated_password' = <<>>
               \/ /\ Len(generated_password') = length
                  /\ length' = length
       /\ result'.kind = "Err"
            => generated_password' \in {generated_password, <<>>}]_vars

\* Half of a two-character password is built while the stored output is
\* still the one-character password of an earlier call.
C24_Witness ==
    /\ call = "generate_password"
    /\ pc = "draw"
    /\ length = 2
    /\ Len(acc) = 1
    /\ Len(generated_password) = 1

\* generate_password has been called with an empty stored output and a
\* charset that is not empty.
OneStartsEmpty ==
    /\ call = "generate_password"
    /\ pc = "draw"
    /\ acc = <<>>
    /\ generated_password = <<>>

\* A run of the batch starts (the stored output has just been cleared).
BatchRunStarts ==
    /\ call = "generate_multiple_passwords"
    /\ pc = "draw"
    /\ acc = <<>>

\* C25: with an empty stored output and a class enabled, generate_password
\* eventually returns Ok under fair draws, whatever the length and the
\* similar, duplicate and sequential toggles; and so does every batch, which
\* clears before each run.
C25_ReturnsFromEmptyOutput ==
    /\ OneStartsEmpty ~> ReturnedOne
    /\ BatchRunStarts ~> (ReturnedBatch /\ result.kind = "Ok")

\* A two-character password is returned from an empty stored output after a
\* visit to the similar loop would have been possible (uppercase only, every
\* check active).
C25_Witness ==
    /\ ReturnedOne
    /\ Len(generated_password) = 2
    /\ use_uppercase /\ ~use_lowercase /\ ~use_numbers /\ ~use_symbols
    /\ ~use_similar_characters
    /\ ~use_duplicate_characters
    /\ ~use_sequential_characters

OnlyDuplicateCheck ==
    /\ ~use_duplicate_characters
    /\ use_sequential_characters
    /\ use_similar_characters

BatchRunCompletes ==
    /\ call = "generate_multiple_passwords"
    /\ pc # "idle"
    /\ pc' = "idle" \/ passwords' # passwords

\* C27: every password of a batch goes to the end of the vector, followed by
\* one newline, and when the batch returns Ok the vector has `quantity`
\* elements and the stored output is the last password, without the newline.
C27_BatchOrderAndLastStored ==
    [][/\ BatchRunCompletes
            => \E c \in Range(charset) :
                 LET pws == Append(passwords, Append(acc, c) \o NEWLINE)
                 IN  IF pc' = "idle"
                     THEN /\ result' = OkVec(pws)
                          /\ Len(pws) = quantity
                          /\ generated_password' = Append(acc, c)
                     ELSE passwords' = pws
       /\ (ReturnedBatch /\ result.kind = "Ok")
            => /\ generated_password
                    = PasswordOf(result.passwords[quantity])
               /\ \A j \in 1..quantity :
                    /\ Len(result.passwords[j]) = length + 1
                    /\ LastChar(result.passwords[j]) = 10
                    /\ ~Contains(PasswordOf(result.passwords[j]), 10)]_vars

\* A batch of two different passwords has returned; the second is stored.
C27_Witness ==
    /\ ReturnedBatch
    /\ result.kind = "Ok"
    /\ quantity = 2
    /\ result.passwords[1] # result.passwords[2]
    /\ generated_password = PasswordOf(result.passwords[2])

\* C28: a failing generate_multiple_passwords leaves the stored output empty
\* (it is cleared before the first run fails), and a failing generate_password
\* leaves the stored output of before in place.
C28_FailedBatchEmptiesFailedOneKeeps ==
    [][/\ (generate_multiple_passwords /\ result'.kind = "Err")
            => (NoClassEnabled /\ generated_password' = <<>>)
       /\ (generate_password /\ result'.kind = "Err")
            => (NoClassEnabled /\ generated_password' = generated_password)]_vars

\* The batch has failed and the stored output is empty.
C28_Witness ==
    /\ ReturnedBatch
    /\ result = ErrCharset
    /\ generated_password = <<>>
    /\ NoClassEnabled

\* C29: generate_password and generate_multiple_passwords, from the call to
\* the return and whether they end in Ok or Err, leave length, quantity and
\* the seven toggles as they were (the similar set is never written after
\* construction); of the container's fields only the stored output changes.
C29_GenerationKeepsSettings ==
    [][(generate_password \/ generate_multiple_passwords \/ pc # "idle")
         => /\ length' = length
            /\ quantity' = quantity
            /\ toggles' = toggles]_vars

\* generate_password has returned under settings that are all away from the
\* defaults but for two toggles.
C29_Witness ==
    /\ ReturnedOne
    /\ length = 2
    /\ quantity = 2
    /\ toggles = <<FALSE, TRUE, FALSE, TRUE, TRUE, FALSE, TRUE>>
    /\ Len(generated_password) = 2

\* 'O', 'i', 'l', 'o', '0', '1'
Ambiguous == {79, 105, 108, 111, 48, 49}

\* No class string has an ambiguous glyph, and of the similar set they have
\* 'L' alone, in the uppercase string.
ClassStringsOmitAmbiguous ==
    /\ Range(UPPERCASE \o LOWERCASE \o NUMBERS \o SYMBOLS) \cap Ambiguous = {}
    /\ Range(UPPERCASE \o LOWERCASE \o NUMBERS \o SYMBOLS)
         \cap similar_characters = {76}
    /\ Range(LOWERCASE \o NUMBERS \o SYMBOLS) \cap similar_characters = {}

\* s may come out of a generation under the present settings.
FreeOfAmbiguous(s) ==
    \A i \in 1..Len(s) :
        /\ s[i] \notin Ambiguous
        /\ s[i] \in similar_characters
             => (s[i] = 76 /\ use_similar_characters /\ use_uppercase)

\* C30: the class strings omit 'O', 'i', 'l', 'o', '0' and '1', so that no
\* password stored or pushed by a call has one of them, whatever the similar
\* toggle, and the only similar character a call can produce is 'L', with
\* similar characters allowed and uppercase enabled.
C30_OnlyLWhenAllowed ==
    [][/\ ClassStringsOmitAmbiguous
       /\ (pc # "idle" /\ pc' = "idle") => FreeOfAmbiguous(generated_password')
       /\ pc # "idle"
            => /\ \A j \in 1..Len(passwords') :
                    FreeOfAmbiguous(PasswordOf(passwords'[j]))
               /\ \A j \in 1..Len(result'.passwords) :
                    FreeOfAmbiguous(PasswordOf(result'.passwords[j]))]_vars

\* An 'L' has been generated, with similar characters allowed.
C30_Witness ==
    /\ ReturnedOne
    /\ Contains(generated_password, 76)
    /\ use_similar_characters
    /\ use_uppercase

====
